---------------------------- MODULE Spec2Model ----------------------------
(***************************************************************************)
(* Model of vm.py, the UPMEM QEMU virtual machine management tool.         *)
(*                                                                         *)
(* A text (a Python str) is a sequence of pieces; a piece is a TLA+ string *)
(* standing for a chunk of characters that is never split.  Numbers that   *)
(* are formatted into, or parsed out of, a text are spelled one character  *)
(* per piece, so that int() and "{n}" are computed and not assumed.        *)
(* A Python value that may be None is a set: {} for None, {v} for v.       *)
(***************************************************************************)
EXTENDS Integers, Sequences, FiniteSets, TLC

(***************************************************************************)
(* Bounds of the model.                                                    *)
(***************************************************************************)
\* longest size token, in characters, of a create / create_from_iso run
MaxSizeLen == 2
\* largest host logical CPU count, os.cpu_count()
MaxCpus == 3
\* largest exit code a subprocess returns
MaxExit == 1
\* how many ports, from the base port up, exist at all (stands for 65535)
MaxPorts == 3
\* how many times the harness calls get_available_port()
MaxProbeCalls == 2

(***************************************************************************)
(* Program constants.                                                      *)
(***************************************************************************)
PortBase == 3132
DefaultSshPort == 2222
DefaultMemSize == 4000
EBADF == 9
ECONNREFUSED == 111
UsageExit == 2

PortLimit == PortBase + MaxPorts - 1
ExitCodes == 0..MaxExit

(***************************************************************************)
(* Texts: "{n}" formatting and int() parsing.                              *)
(***************************************************************************)
DigitChar == <<"0", "1", "2", "3", "4", "5", "6", "7", "8", "9">>
DigitSet == {DigitChar[i] : i \in 1..10}
DigitVal(c) == CHOOSE d \in 0..9 : DigitChar[d + 1] = c

RECURSIVE DigitsOf(_)
DigitsOf(n) ==
    IF n < 10 THEN <<DigitChar[n + 1]>>
    ELSE DigitsOf(n \div 10) \o <<DigitChar[(n % 10) + 1]>>

\* str(n) of a Python int, as "{n}" in an f-string formats it
Str(n) == IF n < 0 THEN <<"-">> \o DigitsOf(0 - n) ELSE DigitsOf(n)

AllDigits(t) == \A i \in 1..Len(t) : t[i] \in DigitSet

RECURSIVE DigitsValue(_)
DigitsValue(t) ==
    IF t = <<>> THEN 0
    ELSE 10 * DigitsValue(SubSeq(t, 1, Len(t) - 1)) + DigitVal(t[Len(t)])

\* int(t) of a text: an optional sign and at least one decimal digit
ParseInt(t) ==
    IF t # <<>> /\ t[1] \in {"-", "+"}
    THEN IF Len(t) > 1 /\ AllDigits(Tail(t))
         THEN [ok |-> TRUE,
               val |-> IF t[1] = "-" THEN 0 - DigitsValue(Tail(t))
                       ELSE DigitsValue(Tail(t))]
         ELSE [ok |-> FALSE, val |-> 0]
    ELSE IF t # <<>> /\ AllDigits(t)
         THEN [ok |-> TRUE, val |-> DigitsValue(t)]
         ELSE [ok |-> FALSE, val |-> 0]

\* ' '.join(cmd)
RECURSIVE Join(_)
Join(cmd) ==
    IF cmd = <<>> THEN <<>>
    ELSE IF Len(cmd) = 1 THEN cmd[1]
    ELSE cmd[1] \o <<" ">> \o Join(Tail(cmd))

None == {}
Some(v) == {v}
Get(o) == CHOOSE v \in o : TRUE

(***************************************************************************)
(* The distribution catalog.                                               *)
(***************************************************************************)
debian == <<"debian">>
ubuntu == <<"ubuntu">>
distbibutions == {debian, ubuntu}

iso_paths ==
    [d \in {debian, ubuntu} |->
        IF d = debian THEN <<"debian-10.13.0-amd64-xfce-CD-1.iso">>
        ELSE <<"ubuntu-20.04.3-live-server-amd64.iso">>]

iso_urls ==
    [d \in {debian, ubuntu} |->
        IF d = debian
        THEN <<"https://cdimage.debian.org/cdimage/archive/10.4.0-live/amd64/iso-hybrid/debian-live-10.4.0-amd64-standard.iso">>
        ELSE <<"https://releases.ubuntu.com/focal/ubuntu-20.04.6-desktop-amd64.iso">>]

(***************************************************************************)
(* The world a handler acts on: the files of the working directory and the *)
(* log of what the run did, in order: handler calls, prints, subprocesses. *)
(***************************************************************************)
CallEv(f) == [kind |-> "call", text |-> <<f>>]
PrintEv(t) == [kind |-> "print", text |-> t]
ExecEv(t, rc) == [kind |-> "exec", text |-> t, rc |-> rc]

NotSupported == <<"Distribution not supported">>
HelpText == <<"usage: vm.py [-h] {create_from_iso,create,start} ...">>
UsageError == <<"usage error">>

\* what a subprocess that writes a file did: its exit code, and whether the
\* file is there afterwards (always after exit code 0)
Outcomes ==
    {[rc |-> r, wrote |-> b] : r \in ExitCodes, b \in BOOLEAN} \
        {[rc |-> 0, wrote |-> FALSE]}

\* subprocess.call(cmd, shell=True): runs cmd, returns its exit code
subprocess_call(w, cmd, rc) == [w EXCEPT !.log = Append(@, ExecEv(cmd, rc))]


(***************************************************************************)
(* Image provisioner.                                                      *)
(***************************************************************************)
download_iso_silent(w, dist, o) ==
    IF dist \in DOMAIN iso_paths
    THEN LET cmd == <<"wget ">> \o iso_urls[dist] \o <<" -O ">> \o iso_paths[dist]
             w1 == subprocess_call(w, cmd, o.rc)
         IN  [w1 EXCEPT !.files =
                 IF o.wrote THEN @ \cup {iso_paths[dist]} ELSE @]
    ELSE w

\* download_iso(dist); o is what wget did
download_iso(w, dist, o) ==
    IF dist \in DOMAIN iso_paths
    THEN LET cmd == <<"wget ">> \o iso_urls[dist] \o <<" -O ">> \o iso_paths[dist]
             w1 == subprocess_call(w, cmd, o.rc)
         IN  [w1 EXCEPT !.files =
                 IF o.wrote THEN @ \cup {iso_paths[dist]} ELSE @]
    ELSE [w EXCEPT !.log = Append(@, PrintEv(NotSupported))]

iso_exists_never(w, dist) == FALSE

\* iso_exists(dist): os.path.exists of the catalog filename
iso_exists(w, dist) ==
    IF dist \in DOMAIN iso_paths
    THEN iso_paths[dist] \in w.files
    ELSE FALSE

create_vm_from_iso_checked(w, name, size, iso_path, oImg, rcQemu) ==
    LET img_path == name \o <<".size">> \o Str(size) \o <<"G.qcow2">>
        cmd1 == <<"qemu-img create -f qcow2 ">> \o img_path \o <<" ">>
                    \o Str(size) \o <<"G">>
        cmd2 == <<"qemu-system-x86_64 -enable-kvm -hda ">> \o img_path
                    \o <<" -cdrom ">> \o iso_path
                    \o <<" -m 4000 -boot d -net user -net nic,model=ne2k_pci -enable-kvm">>
        w1 == subprocess_call(w, cmd1, oImg.rc)
        w2 == [w1 EXCEPT !.files = IF oImg.wrote THEN @ \cup {img_path} ELSE @]
    IN  IF oImg.rc # 0 THEN w2 ELSE subprocess_call(w2, cmd2, rcQemu)

\* create_vm_from_iso(name, size, iso_path); oImg is what qemu-img did,
\* rcQemu the exit code of the hypervisor
create_vm_from_iso(w, name, size, iso_path, oImg, rcQemu) ==
    LET img_path == name \o <<".size">> \o Str(size) \o <<"G.qcow2">>
        cmd1 == <<"qemu-img create -f qcow2 ">> \o img_path \o <<" ">>
                    \o Str(size) \o <<"G">>
        cmd2 == <<"qemu-system-x86_64 -enable-kvm -hda ">> \o img_path
                    \o <<" -cdrom ">> \o iso_path
                    \o <<" -m 4000 -boot d -net user -net nic,model=ne2k_pci -enable-kvm">>
        w1 == subprocess_call(w, cmd1, oImg.rc)
        w2 == [w1 EXCEPT !.files = IF oImg.wrote THEN @ \cup {img_path} ELSE @]
    IN  subprocess_call(w2, cmd2, rcQemu)

\* create_vm(name, size, dist)
create_vm(w, name, size, dist, oDl, oImg, rcQemu) ==
    IF dist \in distbibutions
    THEN LET w1 == IF ~iso_exists(w, dist) THEN download_iso(w, dist, oDl) ELSE w
         IN  create_vm_from_iso(w1, name, size, iso_paths[dist], oImg, rcQemu)
    ELSE [w EXCEPT !.log = Append(@, PrintEv(NotSupported))]

(***************************************************************************)
(* VM launcher.                                                            *)
(***************************************************************************)
StartedText(ssh_port) ==
    <<"vm started wih ssh port", " ">> \o Str(ssh_port)
        \o <<" ", "on localhost", " ", "connect with \nssh -p", " ">>
        \o Str(ssh_port) \o <<" ", "{USER}@localhost">>
FailedText == <<"vm failed to start">>

VncFlag == "-vnc 127.0.0.1:"
SmpFlag == "-smp "

vnc_port_same(ssh_port) == ssh_port

\* port = ssh_port + 1
vnc_port(ssh_port) == ssh_port + 1

\* ncpus = int(os.cpu_count()/2)
default_ncpus(cpu_count) == cpu_count \div 2

outcome_message_started(rc, ssh_port) == StartedText(ssh_port)

\* what start_vm prints after the command, by its exit code
outcome_message(rc, ssh_port) ==
    IF rc = 0 THEN StartedText(ssh_port) ELSE FailedText

\* the cmd list start_vm assembles (lines 83-113), before ' '.join
start_cmd(img_path, ssh_port, mem_size, daemonize, disk, qemu_extra_args, ncpus, sudo, graphical, cpu_count) ==
    LET port == vnc_port(ssh_port)
        n == IF ncpus = None THEN default_ncpus(cpu_count) ELSE Get(ncpus)
        c0 == <<<<"qemu-system-x86_64">>>>
        c1 == IF ~graphical THEN Append(c0, <<VncFlag>> \o Str(port)) ELSE c0
        c2 == c1 \o << <<SmpFlag>> \o Str(n),
                       <<"-cpu host">>,
                       <<"-device virtio-net,netdev=user.0">>,
                       <<"-m ">> \o Str(mem_size),
                       <<"-drive file=">> \o img_path
                           \o <<",if=virtio,index=0,cache=writeback,discard=ignore,format=qcow2">>,
                       <<"-machine type=pc,accel=kvm">>,
                       <<"-netdev user,id=user.0,hostfwd=tcp::">> \o Str(ssh_port)
                           \o <<"-:22">> >>
        c3 == IF daemonize THEN Append(c2, <<"--daemonize">>) ELSE c2
        c4 == IF disk # None
              THEN Append(c3, <<"-drive file=">> \o Get(disk)
                   \o <<",if=virtio,index=1,cache=writeback,discard=ignore,format=qcow2">>)
              ELSE c3
        c5 == IF qemu_extra_args # None THEN Append(c4, Get(qemu_extra_args)) ELSE c4
    IN  IF sudo THEN <<<<"sudo">>>> \o c5 ELSE c5

\* start_vm(...); cpu_count is os.cpu_count(), rc the hypervisor's exit code
start_vm(w, img_path, ssh_port, mem_size, daemonize, disk, verbose, qemu_extra_args, ncpus, sudo, graphical, cpu_count, rc) ==
    LET cmd == start_cmd(img_path, ssh_port, mem_size, daemonize, disk,
                         qemu_extra_args, ncpus, sudo, graphical, cpu_count)
        w1 == IF verbose THEN [w EXCEPT !.log = Append(@, PrintEv(Join(cmd)))] ELSE w
        w2 == subprocess_call(w1, Join(cmd), rc)
    IN  [w2 EXCEPT !.log = Append(@, PrintEv(outcome_message(rc, ssh_port)))]

(***************************************************************************)
(* Argument router: the parsers of lines 125-170 and parse_args.           *)
(* A token of the argument vector is a text.  An option string is one      *)
(* piece; a number is spelled character by character.                      *)
(***************************************************************************)
FlagWords == {"--sudo", "--graphical", "--daemonize", "-v", "--verbose"}
IntOpts == {"--ssh_port", "--mem_size", "--ncpus"}
StrOpts == {"--disk", "--qemu_extra_args"}
\* pieces that start with "-": the options of the start parser, and others
DashWords == FlagWords \cup IntOpts \cup StrOpts \cup {"--bogus"}

FlagDest(o) ==
    CASE o = "--sudo" -> "sudo"
      [] o = "--graphical" -> "graphical"
      [] o = "--daemonize" -> "daemonize"
      [] OTHER -> "verbose"

\* argparse's negative-number test: no option of these parsers looks like a
\* negative number, so such a token is taken as an argument
IsNegativeNumber(t) == Len(t) > 1 /\ t[1] = "-" /\ AllDigits(Tail(t))

LooksLikeOption(t) ==
    /\ t # <<>>
    /\ \/ Len(t) = 1 /\ t[1] \in DashWords
       \/ Len(t) > 1 /\ t[1] = "-" /\ ~IsNegativeNumber(t)

ParseError == [status |-> "error"]

\* the create_from_iso and create subparsers: name, size (type=int), and a
\* third positional stored under dest
ParseCreate(toks, func, dest) ==
    IF Len(toks) # 3 \/ \E i \in 1..Len(toks) : LooksLikeOption(toks[i])
    THEN ParseError
    ELSE LET r == ParseInt(toks[2])
         IN  IF ~r.ok THEN ParseError
             ELSE IF dest = "iso_path"
             THEN [status |-> "ok", func |-> func, name |-> toks[1],
                   size |-> r.val, iso_path |-> toks[3]]
             ELSE [status |-> "ok", func |-> func, name |-> toks[1],
                   size |-> r.val, distrib |-> toks[3]]

StartDefaults ==
    [status |-> "ok", func |-> "start_vm", img_path |-> None,
     ssh_port |-> DefaultSshPort, mem_size |-> DefaultMemSize, disk |-> None,
     qemu_extra_args |-> None, sudo |-> FALSE, graphical |-> FALSE,
     ncpus |-> None, daemonize |-> FALSE, verbose |-> FALSE]

\* the start subparser
RECURSIVE ParseStart(_, _)
ParseStart(toks, ns) ==
    IF toks = <<>>
    THEN IF ns.img_path = None THEN ParseError ELSE ns
    ELSE LET t == Head(toks)
         IN  IF Len(t) = 1 /\ t[1] \in FlagWords
             THEN ParseStart(Tail(toks), [ns EXCEPT ![FlagDest(t[1])] = TRUE])
             ELSE IF Len(t) = 1 /\ t[1] \in IntOpts \cup StrOpts
             THEN IF Len(toks) < 2 \/ LooksLikeOption(toks[2])
                  THEN ParseError
                  ELSE IF t[1] \in StrOpts
                  THEN ParseStart(Tail(Tail(toks)),
                           IF t[1] = "--disk"
                           THEN [ns EXCEPT !.disk = Some(toks[2])]
                           ELSE [ns EXCEPT !.qemu_extra_args = Some(toks[2])])
                  ELSE LET r == ParseInt(toks[2])
                       IN  IF ~r.ok THEN ParseError
                           ELSE ParseStart(Tail(Tail(toks)),
                                    CASE t[1] = "--ssh_port" ->
                                             [ns EXCEPT !.ssh_port = r.val]
                                      [] t[1] = "--mem_size" ->
                                             [ns EXCEPT !.mem_size = r.val]
                                      [] OTHER ->
                                             [ns EXCEPT !.ncpus = Some(r.val)])
             ELSE IF LooksLikeOption(t) THEN ParseError
             ELSE IF ns.img_path = None
             THEN ParseStart(Tail(toks), [ns EXCEPT !.img_path = Some(t)])
             ELSE ParseError

\* parser.parse_args(): the namespace, or a usage error; the namespace has a
\* func attribute only when a subcommand was given (set_defaults)
ParseArgs(av) ==
    IF av = <<>> THEN [status |-> "ok"]
    ELSE IF av[1] = <<"create_from_iso">>
    THEN ParseCreate(Tail(av), "create_vm_from_iso", "iso_path")
    ELSE IF av[1] = <<"create">>
    THEN ParseCreate(Tail(av), "create_vm", "distrib")
    ELSE IF av[1] = <<"start">>
    THEN ParseStart(Tail(av), StartDefaults)
    ELSE ParseError

(***************************************************************************)
(* Port probe.                                                             *)
(***************************************************************************)
connect_ex_fresh(sock, p, listening) ==
    IF p > PortLimit THEN [raised |-> TRUE, result |-> 0]
    ELSE IF p \in listening THEN [raised |-> FALSE, result |-> 0]
    ELSE [raised |-> FALSE, result |-> ECONNREFUSED]

\* sock.connect_ex(('127.0.0.1', p)): OverflowError for a port that does not
\* exist; else the errno of connect(), which is EBADF on a closed socket
connect_ex(sock, p, listening) ==
    IF p > PortLimit THEN [raised |-> TRUE, result |-> 0]
    ELSE IF sock = "closed" THEN [raised |-> FALSE, result |-> EBADF]
    ELSE IF p \in listening THEN [raised |-> FALSE, result |-> 0]
    ELSE [raised |-> FALSE, result |-> ECONNREFUSED]

(***************************************************************************)
(* The state.                                                              *)
(***************************************************************************)
VARIABLES
    entry,      \* what is run: the script, or a function called on its own
    argv,       \* the arguments of the entry point (sys.argv[1:] of the script)
    cpu_count,  \* os.cpu_count() of the host
    files,      \* the files of the working directory
    log,        \* what the run did so far, in order
    pc,         \* where the run is
    args,       \* the namespace parse_args returned
    exit_code,  \* the exit status of the script, once it has ended
    listeners,  \* the ports of 127.0.0.1 a listener is bound on
    port,       \* get_available_port: the local port
    sock,       \* get_available_port: the socket, "none", "open" or "closed"
    returned    \* what each call of get_available_port returned, and when

vars == <<entry, argv, cpu_count, files, log, pc, args, exit_code, listeners, port, sock, returned>>

cli_vars == <<entry, argv, cpu_count>>
probe_vars == <<listeners, port, sock, returned>>

(***************************************************************************)
(* The inputs.                                                             *)
(***************************************************************************)
Names == {<<"test">>}
SizeChars == {"-", "0", "1", "x"}
SizeToks == UNION {[1..n -> SizeChars] : n \in 1..MaxSizeLen}
fedora == <<"fedora">>
Dists == {debian, ubuntu, fedora}
IsoArgs == {<<"my.iso">>}
Images == {<<"test.size10G.qcow2">>}
IsoFiles == {iso_paths[d] : d \in DOMAIN iso_paths}

CreateArgvs ==
    {<<<<"create">>, n, sz, d>> : n \in Names, sz \in SizeToks, d \in Dists}
    \cup {<<<<"create_from_iso">>, n, sz, i>> :
              n \in Names, sz \in SizeToks, i \in IsoArgs}

\* values of --qemu_extra_args: any text holding a blank is taken as a value
\* by argparse, also one that starts with "-"
ExtraArgs == {<<"-snapshot -no-reboot">>, <<"-vnc 127.0.0.1:", "5">>}

Opt(present, toks) == IF present THEN toks ELSE <<>>

StartArgvs ==
    {<<<<"start">>, img>> \o p \o m
        \o Opt(o[1], <<<<"--disk">>, <<"data.qcow2">>>>)
        \o x
        \o Opt(o[2], <<<<"--sudo">>>>)
        \o Opt(o[3], <<<<"--graphical">>>>)
        \o Opt(o[4], <<<<"--ncpus">>, <<"2">>>>)
        \o Opt(o[5], <<<<"--daemonize">>>>)
        \o Opt(o[6], <<<<"-v">>>>) :
        img \in Images,
        p \in {<<>>, <<<<"--ssh_port">>, <<"2", "2", "2", "2">>>>,
               <<<<"--ssh_port">>, <<"9", "9">>>>},
        m \in {<<>>, <<<<"--mem_size">>, <<"5", "1", "2">>>>},
        x \in {<<>>} \cup {<<<<"--qemu_extra_args">>, e>> : e \in ExtraArgs},
        o \in [1..6 -> BOOLEAN]}

OtherArgvs ==
    {<<>>,
     <<<<"bogus">>>>,
     <<<<"create">>, <<"test">>>>,
     <<<<"start">>>>,
     <<<<"start">>, <<"a.qcow2">>, <<"b.qcow2">>>>,
     <<<<"start">>, <<"a.qcow2">>, <<"--bogus">>>>,
     <<<<"start">>, <<"a.qcow2">>, <<"--ssh_port">>>>,
     <<<<"start">>, <<"a.qcow2">>, <<"--ssh_port">>, <<"x">>>>,
     <<<<"start">>, <<"--verbose">>, <<"a.qcow2">>, <<"--ncpus">>, <<"-", "1">>>>}

IsSub(av, sub) == av # <<>> /\ av[1] = <<sub>>

Init ==
    /\ entry \in {"main", "download_iso", "get_available_port"}
    /\ log = <<>>
    /\ args = [status |-> "none"]
    /\ exit_code = None
    /\ port = PortBase
    /\ sock = "none"
    /\ returned = <<>>
    /\ \/ /\ entry = "main"
          /\ argv \in CreateArgvs \cup StartArgvs \cup OtherArgvs
          /\ cpu_count \in IF IsSub(argv, "start") THEN 1..MaxCpus ELSE {1}
          /\ files \in IF IsSub(argv, "create") THEN SUBSET IsoFiles ELSE {{}}
          /\ listeners = {}
          /\ pc = "parse"
       \/ /\ entry = "download_iso"
          /\ argv \in {<<d>> : d \in Dists}
          /\ cpu_count = 1
          /\ files \in SUBSET IsoFiles
          /\ listeners = {}
          /\ pc = "call"
       \/ /\ entry = "get_available_port"
          /\ argv = <<>>
          /\ cpu_count = 1
          /\ files = {}
          /\ listeners \in SUBSET (PortBase..PortLimit)
          /\ pc = "idle"

World == [files |-> files, log |-> log]

(***************************************************************************)
(* The script, lines 172-184.                                              *)
(***************************************************************************)
\* args = parser.parse_args(); a usage error ends the run with status 2
ParseArgsStep ==
    /\ pc = "parse"
    /\ LET a == ParseArgs(argv)
       IN  IF a.status = "error"
           THEN /\ log' = Append(log, PrintEv(UsageError))
                /\ exit_code' = Some(UsageExit)
                /\ pc' = "exited"
                /\ UNCHANGED args
           ELSE /\ args' = a
                /\ pc' = IF "func" \in DOMAIN a THEN "if_create_from_iso"
                         ELSE "print_help"
                /\ UNCHANGED <<log, exit_code>>
    /\ UNCHANGED <<cli_vars, files, probe_vars>>

\* if args.func == create_vm_from_iso: create_vm_from_iso(...)
IfCreateFromIso ==
    /\ pc = "if_create_from_iso"
    /\ IF args.func = "create_vm_from_iso"
       THEN \E oImg \in Outcomes, rc \in ExitCodes :
                LET w == create_vm_from_iso(
                             [World EXCEPT !.log = Append(@, CallEv("create_vm_from_iso"))],
                             args.name, args.size, args.iso_path, oImg, rc)
                IN  files' = w.files /\ log' = w.log
       ELSE UNCHANGED <<files, log>>
    /\ pc' = "if_create"
    /\ UNCHANGED <<cli_vars, args, exit_code, probe_vars>>

IfCreateUnlessStart ==
    /\ pc = "if_create"
    /\ IF args.func # "start_vm"
       THEN \E oDl \in Outcomes, oImg \in Outcomes, rc \in ExitCodes :
                LET w == create_vm(
                             [World EXCEPT !.log = Append(@, CallEv("create_vm"))],
                             args.name, args.size, argv[4], oDl, oImg, rc)
                IN  files' = w.files /\ log' = w.log
       ELSE UNCHANGED <<files, log>>
    /\ pc' = "if_start"
    /\ UNCHANGED <<cli_vars, args, exit_code, probe_vars>>

\* if args.func == create_vm: create_vm(...)
IfCreate ==
    /\ pc = "if_create"
    /\ IF args.func = "create_vm"
       THEN \E oDl \in Outcomes, oImg \in Outcomes, rc \in ExitCodes :
                LET w == create_vm(
                             [World EXCEPT !.log = Append(@, CallEv("create_vm"))],
                             args.name, args.size, args.distrib, oDl, oImg, rc)
                IN  files' = w.files /\ log' = w.log
       ELSE UNCHANGED <<files, log>>
    /\ pc' = "if_start"
    /\ UNCHANGED <<cli_vars, args, exit_code, probe_vars>>

\* if args.func == start_vm: start_vm(...); then the script ends
IfStart ==
    /\ pc = "if_start"
    /\ IF args.func = "start_vm"
       THEN \E rc \in ExitCodes :
                LET w == start_vm(
                             [World EXCEPT !.log = Append(@, CallEv("start_vm"))],
                             Get(args.img_path), args.ssh_port, args.mem_size,
                             args.daemonize, args.disk, args.verbose,
                             args.qemu_extra_args, args.ncpus, args.sudo,
                             args.graphical, cpu_count, rc)
                IN  files' = w.files /\ log' = w.log
       ELSE UNCHANGED <<files, log>>
    /\ pc' = "exited"
    /\ exit_code' = Some(0)
    /\ UNCHANGED <<cli_vars, args, probe_vars>>

\* else: parser.print_help(); then the script ends
PrintHelp ==
    /\ pc = "print_help"
    /\ log' = Append(log, PrintEv(HelpText))
    /\ pc' = "exited"
    /\ exit_code' = Some(0)
    /\ UNCHANGED <<cli_vars, files, args, probe_vars>>

(***************************************************************************)
(* download_iso called on its own.                                         *)
(***************************************************************************)
CallDownloadIso ==
    /\ pc = "call"
    /\ entry = "download_iso"
    /\ \E o \in Outcomes :
           LET w == download_iso(World, argv[1], o)
           IN  files' = w.files /\ log' = w.log
    /\ pc' = "returned"
    /\ UNCHANGED <<cli_vars, args, exit_code, probe_vars>>

(***************************************************************************)
(* get_available_port called on its own, up to MaxProbeCalls times, a      *)
(* listener being bound between the calls on the port the last one gave.   *)
(***************************************************************************)
\* port = 3132; sock = socket.socket(...)
ProbeCall ==
    /\ pc = "idle"
    /\ entry = "get_available_port"
    /\ Len(returned) < MaxProbeCalls
    /\ port' = PortBase
    /\ sock' = "open"
    /\ pc' = "loop"
    /\ UNCHANGED <<cli_vars, files, log, args, exit_code, listeners, returned>>

\* one turn of the while loop, lines 50-58
ProbeIter ==
    /\ pc = "loop"
    /\ LET r == connect_ex(sock, port, listeners)
       IN  IF r.raised
           THEN /\ pc' = "raised"
                /\ UNCHANGED <<log, port, sock, returned>>
           ELSE /\ sock' = "closed"
                /\ IF r.result = 0
                   THEN /\ log' = Append(log, PrintEv(<<"Port ">> \o Str(port)
                                              \o <<" is already in use">>))
                        /\ port' = port + 1
                        /\ pc' = "loop"
                        /\ UNCHANGED returned
                   ELSE /\ log' = Append(log, PrintEv(<<"Port ">> \o Str(port)
                                              \o <<" is available">>))
                        /\ returned' = Append(returned,
                               [port |-> port, listening |-> listeners])
                        /\ pc' = "idle"
                        /\ UNCHANGED port
    /\ UNCHANGED <<cli_vars, files, args, exit_code, listeners>>

\* the caller binds a listener on the port the last call returned
Listen ==
    /\ pc = "idle"
    /\ returned # <<>>
    /\ returned[Len(returned)].port \notin listeners
    /\ listeners' = listeners \cup {returned[Len(returned)].port}
    /\ UNCHANGED <<cli_vars, files, log, pc, args, exit_code, port, sock, returned>>

Next ==
    \/ ParseArgsStep
    \/ IfCreateFromIso
    \/ IfCreate
    \/ IfStart
    \/ PrintHelp
    \/ CallDownloadIso
    \/ ProbeCall
    \/ ProbeIter
    \/ Listen

Spec == Init /\ [][Next]_vars

\* a running call of get_available_port is not suspended for ever
FairSpec == Spec /\ WF_vars(ProbeIter)

(***************************************************************************)
(* Reading the log.                                                        *)
(***************************************************************************)
IsWget(e) == e.kind = "exec" /\ e.text[1] = "wget "
IsQemuImg(e) == e.kind = "exec" /\ e.text[1] = "qemu-img create -f qcow2 "
IsInstaller(e) == e.kind = "exec" /\ e.text[1] = "qemu-system-x86_64 -enable-kvm -hda "
IsExec(e) == e.kind = "exec"
IsPrint(e) == e.kind = "print"
IsCall(e) == e.kind = "call"

Supported == {<<"debian">>, <<"ubuntu">>}
CatalogFile(d) ==
    IF d = <<"debian">> THEN <<"debian-10.13.0-amd64-xfce-CD-1.iso">>
    ELSE <<"ubuntu-20.04.3-live-server-amd64.iso">>

\* the pieces of text t after position i, up to the next blank or the end
ArgAfter(t, i) ==
    LET stops == {j \in (i + 1)..Len(t) : t[j] = " "}
        stop == IF stops = {} THEN Len(t) + 1
                ELSE CHOOSE j \in stops : \A k \in stops : j <= k
    IN  SubSeq(t, i + 1, stop - 1)

Places(t, piece) == {i \in 1..Len(t) : t[i] = piece}

\* the run is the script, it parsed a subcommand f and went past its call
Ran(f) ==
    /\ entry = "main"
    /\ pc = "exited"
    /\ exit_code = {0}
    /\ "func" \in DOMAIN args
    /\ args.func = f

(***************************************************************************)
(* C1.  For a distribution outside the catalog, create_vm and download_iso *)
(* print "Distribution not supported" and return: no subprocess is run and *)
(* no file changes.                                                        *)
(***************************************************************************)
C1_UnsupportedDistribution ==
    [][/\ (pc = "if_create" /\ args.func = "create_vm"
             /\ args.distrib \notin Supported)
          => /\ files' = files
             /\ log' = log \o <<CallEv("create_vm"), PrintEv(NotSupported)>>
       /\ (pc = "call" /\ entry = "download_iso" /\ argv[1] \notin Supported)
          => /\ files' = files
             /\ log' = Append(log, PrintEv(NotSupported))]_vars

C1_Witness ==
    /\ Ran("create_vm")
    /\ args.distrib = <<"fedora">>
    /\ log = <<CallEv("create_vm"), PrintEv(NotSupported)>>

(***************************************************************************)
(* C2.  For a supported distribution d, create_vm runs the download iff    *)
(* the catalog ISO of d is absent when it is called, and then the          *)
(* disk-image creation and the hypervisor with the catalog filename of d   *)
(* as the CD-ROM, in this order.  As claimed: the ISO exists when it       *)
(* delegates.  As amended: the ISO exists then if it was there at the call *)
(* or the download ended with exit code 0; create_vm delegates all the     *)
(* same after a download that failed.                                      *)
(***************************************************************************)
C2_Case ==
    pc = "if_create" /\ args.func = "create_vm" /\ args.distrib \in Supported

\* the subprocesses create_vm ran in this step
C2_New == SubSeq(log', Len(log) + 2, Len(log'))

C2_DownloadIffAbsent ==
    LET iso == CatalogFile(args.distrib)
    IN  /\ log' # log
        /\ log'[Len(log) + 1] = CallEv("create_vm")
        /\ (iso \notin files) <=> (C2_New # <<>> /\ IsWget(C2_New[1]))

C2_Order ==
    LET iso == CatalogFile(args.distrib)
        rest == IF iso \notin files THEN Tail(C2_New) ELSE C2_New
    IN  /\ Len(rest) = 2
        /\ IsQemuImg(rest[1])
        /\ IsInstaller(rest[2])
        /\ \E i \in Places(rest[2].text, " -cdrom ") :
               /\ SubSeq(rest[2].text, i + 1, i + Len(iso)) = iso
               /\ rest[2].text[i + Len(iso) + 1]
                    = " -m 4000 -boot d -net user -net nic,model=ne2k_pci -enable-kvm"

\* the files only grow in the step, and the disk image is not the ISO: the
\* ISO is there at the end iff it was there when create_vm delegated
C2_IsoAtDelegation == CatalogFile(args.distrib) \in files'

C2_Original ==
    [][C2_Case => C2_DownloadIffAbsent /\ C2_IsoAtDelegation /\ C2_Order]_vars

C2_Amended ==
    [][C2_Case =>
        /\ C2_DownloadIffAbsent
        /\ C2_Order
        /\ (\/ CatalogFile(args.distrib) \in files
            \/ (IsWget(C2_New[1]) /\ C2_New[1].rc = 0)) => C2_IsoAtDelegation]_vars

C2_Witness ==
    /\ Ran("create_vm")
    /\ args.distrib = <<"debian">>
    /\ Len(log) = 4
    /\ IsWget(log[2]) /\ log[2].rc # 0
    /\ IsQemuImg(log[3])
    /\ IsInstaller(log[4])
    /\ CatalogFile(<<"debian">>) \notin files

(***************************************************************************)
(* C3.  In the create flows a subprocess that fails is treated as one that *)
(* succeeds: whatever the exit code of the download, the disk-image        *)
(* creation follows it; whatever the exit code of the disk-image creation, *)
(* the hypervisor follows it; and the run ends with exit code 0.           *)
(***************************************************************************)
C3_FailuresIgnored ==
    entry = "main" =>
        /\ \A i \in 1..Len(log) :
               /\ IsWget(log[i]) => i < Len(log) /\ IsQemuImg(log[i + 1])
               /\ IsQemuImg(log[i]) => i < Len(log) /\ IsInstaller(log[i + 1])
        /\ (pc = "exited" /\ "func" \in DOMAIN args
              /\ args.func \in {"create_vm", "create_vm_from_iso"})
           => exit_code = {0}

C3_Witness ==
    /\ Ran("create_vm")
    /\ Len(log) = 4
    /\ IsWget(log[2]) /\ log[2].rc # 0
    /\ IsQemuImg(log[3]) /\ log[3].rc # 0
    /\ IsInstaller(log[4]) /\ log[4].rc # 0

(***************************************************************************)
(* C4.  start_vm runs the assembled command exactly once and then prints   *)
(* exactly one outcome message: the confirmation with ssh_port and the ssh *)
(* hint iff the exit code is 0, "vm failed to start" iff it is not.  With  *)
(* verbose, the command line is printed before the command is run, and is  *)
(* the text that is run.                                                   *)
(***************************************************************************)
C4_StartOutcome ==
    Ran("start_vm") =>
        LET ev == Tail(log)
            body == IF args.verbose THEN Tail(ev) ELSE ev
        IN  /\ log[1] = CallEv("start_vm")
            /\ args.verbose => IsPrint(ev[1]) /\ ev[1].text = ev[2].text
            /\ Len(body) = 2
            /\ IsExec(body[1])
            /\ IsPrint(body[2])
            /\ body[1].rc = 0 => body[2].text = StartedText(args.ssh_port)
            /\ body[1].rc # 0 => body[2].text = <<"vm failed to start">>
            /\ StartedText(args.ssh_port) # <<"vm failed to start">>

C4_Witness ==
    /\ Ran("start_vm")
    /\ args.verbose
    /\ Len(log) = 4
    /\ IsExec(log[3]) /\ log[3].rc # 0
    /\ log[2].text = log[3].text
    /\ log[4].text = <<"vm failed to start">>

(***************************************************************************)
(* C5.  get_available_port returns the smallest port from 3132 up that no  *)
(* listener is bound on when it is called, so never a bound port; and a    *)
(* second call, made with a listener bound on the port the first call      *)
(* returned, returns a strictly greater port.                              *)
(***************************************************************************)
C5_ReturnsSmallestFreePort ==
    /\ \A i \in 1..Len(returned) :
           /\ returned[i].port \notin returned[i].listening
           /\ \A q \in PortBase..(returned[i].port - 1) : q \in returned[i].listening
    /\ (Len(returned) >= 2 /\ returned[1].port \in returned[2].listening)
           => returned[2].port > returned[1].port

(***************************************************************************)
(* C6.  get_available_port terminates: whatever ports are bound, a call    *)
(* that has entered the probe loop leaves it by returning a port.          *)
(***************************************************************************)
C6_ProbeReturns == (pc = "loop") ~> (pc = "idle" /\ returned # <<>>)

C6_Witness ==
    /\ entry = "get_available_port"
    /\ pc = "idle"
    /\ Len(returned) = 1
    /\ returned[1].port > PortBase
    /\ PortBase \in returned[1].listening

(***************************************************************************)
(* C7.  The command start_vm assembles holds no VNC flag when graphical is *)
(* set, and exactly one when it is not, which binds 127.0.0.1 at           *)
(* ssh_port + 1 (2223 for ssh_port 2222).  As claimed: of the whole        *)
(* command.  As amended: of the command without the text that              *)
(* qemu_extra_args appends to it verbatim.                                 *)
(***************************************************************************)
\* the VNC flags of text t are as claimed for this run of start_vm
C7_FlagsAsClaimed(t) ==
    LET at == Places(t, "-vnc 127.0.0.1:")
    IN  /\ args.graphical => at = {}
        /\ ~args.graphical =>
               /\ Cardinality(at) = 1
               /\ \A j \in at :
                      ParseInt(ArgAfter(t, j))
                          = [ok |-> TRUE, val |-> args.ssh_port + 1]

\* text t without the value of qemu_extra_args and the blank before it, the
\* last thing the command ends with when it is given
C7_WithoutExtra(t) ==
    IF args.qemu_extra_args = {} THEN t
    ELSE LET extra == CHOOSE e \in args.qemu_extra_args : TRUE
         IN  IF /\ Len(t) > Len(extra)
                /\ SubSeq(t, Len(t) - Len(extra), Len(t)) = <<" ">> \o extra
             THEN SubSeq(t, 1, Len(t) - Len(extra) - 1)
             ELSE t

C8_SizePositive ==
    \A i \in 1..Len(log) :
        IsQemuImg(log[i]) =>
            LET t == log[i].text
                blanks == Places(t, " ")
                last == CHOOSE j \in blanks : \A k \in blanks : k <= j
                size == ParseInt(SubSeq(t, last + 1, Len(t) - 1))
            IN  t[Len(t)] = "G" /\ size.ok /\ size.val >= 1

(***************************************************************************)
(* C9.  A run of the script calls at most one handler.  With no subcommand *)
(* it prints the help text, calls no handler, runs no subprocess and ends  *)
(* with exit code 0; with a valid subcommand it calls the handler of that  *)
(* subcommand, once, and no other.                                         *)
(***************************************************************************)
HandlerOf(sub) ==
    CASE sub = <<"create_from_iso">> -> "create_vm_from_iso"
      [] sub = <<"create">> -> "create_vm"
      [] sub = <<"start">> -> "start_vm"
      [] OTHER -> "none"

C9_OneHandler ==
    entry = "main" =>
        LET calls == SelectSeq(log, IsCall)
        IN  /\ Len(calls) <= 1
            /\ (pc = "exited" /\ argv = <<>>)
                   => log = <<PrintEv(HelpText)>> /\ exit_code = {0}
            /\ (pc = "exited" /\ argv # <<>> /\ exit_code = {0})
                   => Len(calls) = 1 /\ calls[1].text = <<HandlerOf(argv[1])>>
            /\ (pc = "exited" /\ exit_code # {0})
                   => \A i \in 1..Len(log) : IsPrint(log[i])

C9_Witness ==
    /\ Ran("create_vm_from_iso")
    /\ argv[1] = <<"create_from_iso">>
    /\ log[1] = CallEv("create_vm_from_iso")
    /\ Len(SelectSeq(log, IsCall)) = 1
    /\ Len(SelectSeq(log, IsExec)) = 2

(***************************************************************************)
(* C10.  When ncpus is unset, the -smp value start_vm puts in the command  *)
(* is at least 1 for every host with at least one logical CPU.             *)
(***************************************************************************)
C10_SmpAtLeastOne ==
    (Ran("start_vm") /\ args.ncpus = {} /\ cpu_count >= 1) =>
        \A i \in 1..Len(log) :
            IsExec(log[i]) =>
                /\ Places(log[i].text, "-smp ") # {}
                /\ \A j \in Places(log[i].text, "-smp ") :
                       LET n == ParseInt(ArgAfter(log[i].text, j))
                       IN  n.ok /\ n.val >= 1

=============================================================================
